---- MODULE Spec2Model ----
(***************************************************************************)
(* Model of the shunting-yard evaluation engine of src/math/src/engine.rs: *)
(* the Engine trait (validate_tokens, evaluate, execute) and its           *)
(* ShuntingYardEngine implementation with its two stacks.                  *)
(*                                                                         *)
(* Number and Variable live in other files of the crate; they are modelled *)
(* over the integers from their description (fallible add, sub, mul, div,  *)
(* power, factorial; argc and calc).  A panic of the Rust code (unwrap on  *)
(* None, todo!()) is the outcome "Trap".                                   *)
(***************************************************************************)
EXTENDS Integers, Sequences, FiniteSets

VARIABLES
    pc,         \* "idle" | "validated" | "rejected" | "loop" | "returned" |
                \* "failed" | "trapped"
    api,        \* entry point of the running call: "execute" | "evaluate" | "none"
    tokens,     \* the token slice of the running call
    variables,  \* the environment of the running call (a set of Variable)
    pos,        \* number of tokens whose dispatch has begun
    operators,  \* self.operators : Vec<ShuntingYardOperator>
    operands,   \* self.operands  : Vec<Number>
    result,     \* outcome of the call
    calls,      \* number of calls made on this engine instance
    validation, \* what validate_tokens returned to execute in the running call
    cleared     \* number of stack entries the clear() calls of the running
                \* call discarded

vars ==
    <<pc, api, tokens, variables, pos, operators, operands, result, calls,
      validation, cleared>>

----------------------------------------------------------------------------
\* Bounds of the model.

\* Longest token sequence drawn from the whole alphabet.
MaxLen == 3

\* Numbers of the structured expressions range over -1 .. MaxNum.
MaxNum == 3

\* Calls made on one engine instance.
MaxCalls == 2

----------------------------------------------------------------------------
\* Sequence helpers (Vec::last, Vec::pop).

Last(s) == s[Len(s)]

Front(s) == SubSeq(s, 1, Len(s) - 1)

----------------------------------------------------------------------------
\* Number: results of the fallible arithmetic.

NumberDefault == 0

Ok(n) == [ok |-> TRUE, val |-> n, err |-> ""]

Err(e) == [ok |-> FALSE, val |-> 0, err |-> e]

add(lhs, rhs) == Ok(lhs + rhs)

sub(lhs, rhs) == Ok(lhs - rhs)

mul(lhs, rhs) == Ok(lhs * rhs)

div(lhs, rhs) ==
    IF rhs = 0 THEN Err("ArithmeticDomainError") ELSE Ok(lhs \div rhs)

RECURSIVE Pow(_, _)
Pow(b, e) == IF e = 0 THEN 1 ELSE b * Pow(b, e - 1)

\* Over the integers a negative exponent has no value.
power(lhs, rhs) ==
    IF rhs < 0 THEN Err("ArithmeticDomainError") ELSE Ok(Pow(lhs, rhs))

RECURSIVE Fact(_)
Fact(n) == IF n <= 1 THEN 1 ELSE n * Fact(n - 1)

factorial(n) ==
    IF n < 0 THEN Err("ArithmeticDomainError") ELSE Ok(Fact(n))

----------------------------------------------------------------------------
\* Operator and its precedence.

Operator == {"Plus", "Minus", "Multiply", "Divide", "Power"}

operator_precedence(op) ==
    CASE op \in {"Plus", "Minus"} -> 0
      [] op \in {"Multiply", "Divide"} -> 1
      [] op = "Power" -> 2

evaluate_expr(lhs, rhs, op) ==
    CASE op = "Plus" -> add(lhs, rhs)
      [] op = "Minus" -> sub(lhs, rhs)
      [] op = "Multiply" -> mul(lhs, rhs)
      [] op = "Divide" -> div(lhs, rhs)
      [] op = "Power" -> power(lhs, rhs)

----------------------------------------------------------------------------
\* Variable: a named constant or function of fixed arity.

Var(name, n) == [name |-> name, argc |-> n]

NoVar == Var("", 0)

Max2(a, b) == IF a >= b THEN a ELSE b

\* var.calc(&argv)
calc(var, argv) ==
    IF Len(argv) # var.argc THEN Err("ArityMismatch")
    ELSE CASE var.name = "c" -> Ok(7)
           [] var.name = "f" -> Ok(argv[1] + 10)
           [] var.name = "max" -> Ok(Max2(argv[1], argv[2]))
           [] var.name = "sub" -> Ok(argv[1] - argv[2])
           [] OTHER -> Err("ArithmeticDomainError")

\* The environments the calls are made with.
FullEnv == {Var("c", 0), Var("f", 1), Var("max", 2), Var("sub", 2)}

EmptyEnv == {}

\* variables.get(id)
Lookup(env, id) == {v \in env : v.name = id}

----------------------------------------------------------------------------
\* Token.

TNumber(n) == [type |-> "Number", num |-> n, name |-> ""]

TOperator(op) == [type |-> "Operator", num |-> 0, name |-> op]

TFactorialSign == [type |-> "FactorialSign", num |-> 0, name |-> ""]

TParenLeft == [type |-> "Bracket", num |-> 0, name |-> "ParenLeft"]

TParenRight == [type |-> "Bracket", num |-> 0, name |-> "ParenRight"]

TVerticalLine == [type |-> "Bracket", num |-> 0, name |-> "VerticalLine"]

TId(id) == [type |-> "Id", num |-> 0, name |-> id]

TComma == [type |-> "Comma", num |-> 0, name |-> ""]

----------------------------------------------------------------------------
\* ShuntingYardOperator: the entries of the marker stack.

MOperator(op) == [kind |-> "Operator", op |-> op, var |-> NoVar]

MOpenParen == [kind |-> "OpenParen", op |-> "", var |-> NoVar]

MVariable(v) == [kind |-> "Variable", op |-> "", var |-> v]

----------------------------------------------------------------------------
\* Outcome of one handler: the two stacks after it, and how it ended
\* ("Ok", "Err" for an error returned by `?`, "Trap" for a panic).

St(ors, ands, status, err) ==
    [operators |-> ors, operands |-> ands, status |-> status, err |-> err]

\* self.operands.push(val)
store_operand(ands, val) == Append(ands, val)

\* operator_handle_loop breaking on `>=` instead of `>`: a pending operator
\* of the same precedence class is not reduced.
RECURSIVE operator_handle_loop_ge(_, _, _)
operator_handle_loop_ge(ors, ands, op) ==
    IF ors # <<>> /\ Last(ors).kind = "Operator"
    THEN IF operator_precedence(op) >= operator_precedence(Last(ors).op)
         THEN St(ors, ands, "Ok", "")
         ELSE IF ands = <<>>
         THEN St(ors, ands, "Trap", "OperandUnderflow")
         ELSE LET lhs == Last(ands)
                  a1 == Front(ands)
              IN  IF a1 = <<>>
                  THEN St(ors, a1, "Trap", "OperandUnderflow")
                  ELSE LET rhs == Last(a1)
                           a2 == Front(a1)
                           r == evaluate_expr(lhs, rhs, Last(ors).op)
                       IN  IF ~r.ok
                           THEN St(ors, a2, "Err", r.err)
                           ELSE operator_handle_loop_ge(
                                    Front(ors), store_operand(a2, r.val), op)
    ELSE St(ors, ands, "Ok", "")

\* The while loop of operator_handle: the first pop is named lhs, the
\* second rhs, and the pending operator is applied as lhs OP rhs.
RECURSIVE operator_handle_loop(_, _, _)
operator_handle_loop(ors, ands, op) ==
    IF ors # <<>> /\ Last(ors).kind = "Operator"
    THEN IF operator_precedence(op) > operator_precedence(Last(ors).op)
         THEN St(ors, ands, "Ok", "")
         ELSE IF ands = <<>>
         THEN St(ors, ands, "Trap", "OperandUnderflow")
         ELSE LET lhs == Last(ands)
                  a1 == Front(ands)
              IN  IF a1 = <<>>
                  THEN St(ors, a1, "Trap", "OperandUnderflow")
                  ELSE LET rhs == Last(a1)
                           a2 == Front(a1)
                           r == evaluate_expr(lhs, rhs, Last(ors).op)
                       IN  IF ~r.ok
                           THEN St(ors, a2, "Err", r.err)
                           ELSE operator_handle_loop(
                                    Front(ors), store_operand(a2, r.val), op)
    ELSE St(ors, ands, "Ok", "")

operator_handle(ors, ands, op) ==
    LET r == operator_handle_loop(ors, ands, op)
    IN  IF r.status = "Ok"
        THEN St(Append(r.operators, MOperator(op)), r.operands, "Ok", "")
        ELSE r

\* Option<Number>
None == [some |-> FALSE, val |-> 0]

Some(n) == [some |-> TRUE, val |-> n]

\* Outcome of finalize: the stacks, the status and the Option it returns.
Fin(ors, ands, status, err, res) ==
    [operators |-> ors, operands |-> ands, status |-> status, err |-> err,
     res |-> res]

\* The while loop of finalize: every entry it looks at is popped first.
RECURSIVE finalize_loop(_, _, _)
finalize_loop(ors, ands, res) ==
    IF ors = <<>>
    THEN Fin(ors, ands, "Ok", "", res)
    ELSE LET operator == Last(ors)
             o1 == Front(ors)
         IN  IF operator.kind # "Operator"
             THEN Fin(o1, ands, "Ok", "", res)
             ELSE IF ~res.some /\ ands = <<>>
             THEN Fin(o1, ands, "Trap", "OperandUnderflow", res)
             ELSE LET rhs == IF res.some THEN res.val ELSE Last(ands)
                      a1 == IF res.some THEN ands ELSE Front(ands)
                  IN  IF a1 = <<>>
                      THEN Fin(o1, a1, "Trap", "OperandUnderflow", res)
                      ELSE LET lhs == Last(a1)
                               a2 == Front(a1)
                               r == evaluate_expr(lhs, rhs, operator.op)
                           IN  IF ~r.ok
                               THEN Fin(o1, a2, "Err", r.err, res)
                               ELSE finalize_loop(o1, a2, Some(r.val))

finalize(ors, ands) == finalize_loop(ors, ands, None)

\* Outcome of the argument loop of closing_bracket_handle.
Args(ok, argv, rest) == [ok |-> ok, argv |-> argv, rest |-> rest]

\* collect_argv with each popped operand pushed at the back of argv
\* instead of inserted at its front.
RECURSIVE collect_argv_pushed(_, _, _)
collect_argv_pushed(ands, argc, argv) ==
    IF argc = 0 THEN Args(TRUE, argv, ands)
    ELSE IF ands = <<>> THEN Args(FALSE, argv, ands)
    ELSE collect_argv_pushed(Front(ands), argc - 1, Append(argv, Last(ands)))

\* for _ in 0..argc { argv.insert(0, self.operands.pop().unwrap()) }
RECURSIVE collect_argv(_, _, _)
collect_argv(ands, argc, argv) ==
    IF argc = 0 THEN Args(TRUE, argv, ands)
    ELSE IF ands = <<>> THEN Args(FALSE, argv, ands)
    ELSE collect_argv(Front(ands), argc - 1, <<Last(ands)>> \o argv)

closing_bracket_handle(ors, ands) ==
    LET fin == finalize(ors, ands)
    IN  IF fin.status # "Ok"
        THEN St(fin.operators, fin.operands, fin.status, fin.err)
        ELSE IF fin.res.some
        THEN St(fin.operators, store_operand(fin.operands, fin.res.val), "Ok", "")
        ELSE IF fin.operators # <<>> /\ Last(fin.operators).kind = "Variable"
        THEN LET var == Last(fin.operators).var
                 a == collect_argv(fin.operands, var.argc, <<>>)
             IN  IF ~a.ok
                 THEN St(fin.operators, a.rest, "Trap", "OperandUnderflow")
                 ELSE LET val == calc(var, a.argv)
                      IN  IF ~val.ok
                          THEN St(fin.operators, a.rest, "Err", val.err)
                          ELSE St(Front(fin.operators),
                                  store_operand(a.rest, val.val), "Ok", "")
        ELSE St(fin.operators, fin.operands, "Ok", "")

\* factorial_handle reading the top operand with last() instead of pop():
\* the factorial is pushed above its operand.
factorial_handle_kept(ors, ands) ==
    IF ands = <<>>
    THEN St(ors, ands, "Trap", "OperandUnderflow")
    ELSE LET num == factorial(Last(ands))
         IN  IF ~num.ok
             THEN St(ors, ands, "Err", num.err)
             ELSE St(ors, store_operand(ands, num.val), "Ok", "")

\* Token::FactorialSign arm of evaluate.
factorial_handle(ors, ands) ==
    IF ands = <<>>
    THEN St(ors, ands, "Trap", "OperandUnderflow")
    ELSE LET num == factorial(Last(ands))
         IN  IF ~num.ok
             THEN St(ors, Front(ands), "Err", num.err)
             ELSE St(ors, store_operand(Front(ands), num.val), "Ok", "")

\* Token::Id arm of evaluate.
id_handle(ors, ands, env, id) ==
    IF Lookup(env, id) = {}
    THEN St(ors, ands, "Trap", "VariableNotFound")
    ELSE St(Append(ors, MVariable(CHOOSE v \in Lookup(env, id) : TRUE)),
            ands, "Ok", "")

----------------------------------------------------------------------------
\* The inputs of the calls.

Num == -1 .. MaxNum

\* The alphabet of the unstructured token sequences: every kind of Token.
Alphabet ==
    {TNumber(0), TNumber(2), TFactorialSign, TParenLeft, TParenRight,
     TVerticalLine, TComma, TId("c"), TId("f"), TId("max"), TId("u")}
    \cup {TOperator(op) : op \in Operator}

SeqsUpTo(n) == UNION {[1 .. k -> Alphabet] : k \in 0 .. n}

\* a OP b
BinaryExpr(a, op, b) == <<TNumber(a), TOperator(op), TNumber(b)>>

\* a op1 b op2 c
TripleExpr(a, op1, b, op2, c) ==
    <<TNumber(a), TOperator(op1), TNumber(b), TOperator(op2), TNumber(c)>>

\* ( a + b ) * c
ParenExpr(a, b, c) ==
    <<TParenLeft, TNumber(a), TOperator("Plus"), TNumber(b), TParenRight,
      TOperator("Multiply"), TNumber(c)>>

\* a1 , a2 , ... , an
RECURSIVE ArgList(_)
ArgList(args) ==
    IF args = <<>> THEN <<>>
    ELSE IF Len(args) = 1 THEN <<TNumber(args[1])>>
    ELSE <<TNumber(args[1]), TComma>> \o ArgList(Tail(args))

\* f ( a1 , ... , an )
CallExpr(f, args) == <<TId(f), TParenLeft>> \o ArgList(args) \o <<TParenRight>>

\* f ( a + b )
CallOfSum(f, a, b) ==
    <<TId(f), TParenLeft, TNumber(a), TOperator("Plus"), TNumber(b), TParenRight>>

\* The expressions the specification names.
Examples ==
    {TripleExpr(2, "Plus", 3, "Multiply", 4),
     TripleExpr(8, "Minus", 3, "Minus", 2),
     TripleExpr(2, "Power", 3, "Power", 2),
     ParenExpr(2, 3, 4),
     CallExpr("max", <<3, 7>>),
     CallExpr("max", <<3>>),
     <<TNumber(1), TOperator("Plus")>> \o CallExpr("max", <<3>>),
     BinaryExpr(5, "Divide", 0),
     <<TNumber(5), TFactorialSign>>,
     <<TParenLeft, TId("c"), TParenRight>>}

Structured ==
    {BinaryExpr(a, op, b) : a \in Num, op \in Operator, b \in Num}
    \cup UNION {{TripleExpr(a, op1, b, op2, c) : a \in Num, b \in Num, c \in Num}
                : op1 \in Operator, op2 \in Operator}
    \cup {ParenExpr(a, b, c) : a \in Num, b \in Num, c \in Num}
    \cup UNION {{CallExpr(v.name, args) : args \in [1 .. n -> Num]}
                : v \in FullEnv, n \in 0 .. 3}
    \cup UNION {{<<TNumber(a), TOperator("Plus")>> \o CallExpr(v.name, args)
                 : a \in Num, args \in [1 .. n -> Num]}
                : v \in FullEnv, n \in 0 .. 2}
    \cup {CallOfSum(v.name, a, b) : v \in FullEnv, a \in Num, b \in Num}
    \cup {<<TNumber(n), TFactorialSign>> : n \in Num}

\* <<tokens, environment>> of the first call on an engine.
FirstCalls ==
    ((SeqsUpTo(MaxLen) \cup Structured \cup Examples) \X {FullEnv})
    \cup (SeqsUpTo(MaxLen - 1) \X {EmptyEnv})

\* <<tokens, environment>> of the later calls on the same engine.
LaterCalls ==
    {<<>>, <<TNumber(2)>>, TripleExpr(8, "Minus", 3, "Minus", 2),
     CallExpr("max", <<3, 7>>), <<TId("u")>>} \X {FullEnv}

Inputs == IF calls = 0 THEN FirstCalls ELSE LaterCalls

----------------------------------------------------------------------------
\* The state machine.

NoResult == [kind |-> "None", val |-> 0, err |-> ""]

\* Result<()> of validate_tokens.
NotValidated == [ran |-> FALSE, ok |-> TRUE, err |-> ""]

Valid == [ran |-> TRUE, ok |-> TRUE, err |-> ""]

Invalid(e) == [ran |-> TRUE, ok |-> FALSE, err |-> e]

\* The errors a validate_tokens may report.
ValidationErrors == {"MalformedExpression", "UndefinedVariable", "ArityMismatch"}

Init ==
    /\ pc = "idle"
    /\ api = "none"
    /\ tokens = <<>>
    /\ variables = EmptyEnv
    /\ pos = 0
    /\ operators = <<>>
    /\ operands = <<>>
    /\ result = NoResult
    /\ calls = 0
    /\ validation = NotValidated
    /\ cleared = 0

\* The engine is free: freshly built, or the previous call has returned.
Free == pc \in {"idle", "returned", "failed", "rejected"} /\ calls < MaxCalls

\* execute, line 35: self.validate_tokens(token, variables)?  The
\* ShuntingYardEngine's validate_tokens checks nothing and returns Ok(()).
validate_tokens ==
    /\ Free
    /\ \E c \in Inputs :
        /\ tokens' = c[1]
        /\ variables' = c[2]
    /\ api' = "execute"
    /\ pc' = "validated"
    /\ pos' = 0
    /\ result' = NoResult
    /\ calls' = calls + 1
    /\ validation' = Valid
    /\ cleared' = 0
    /\ UNCHANGED <<operators, operands>>

\* execute, line 35, on an Engine whose validate_tokens is not the stub:
\* the trait declares the method without a body (lines 14-18), so it may
\* return Ok(()) or any error.
validate_tokens_any ==
    /\ Free
    /\ \E c \in LaterCalls :
        /\ tokens' = c[1]
        /\ variables' = c[2]
    /\ api' = "execute"
    /\ pc' = "validated"
    /\ pos' = 0
    /\ result' = NoResult
    /\ calls' = calls + 1
    /\ validation' \in {Valid} \cup {Invalid(e) : e \in ValidationErrors}
    /\ cleared' = 0
    /\ UNCHANGED <<operators, operands>>

\* execute, line 35: the `?` returns the error of validate_tokens.
execute_rejected ==
    /\ pc = "validated"
    /\ ~validation.ok
    /\ pc' = "rejected"
    /\ result' = [kind |-> "Err", val |-> 0, err |-> validation.err]
    /\ UNCHANGED <<api, tokens, variables, pos, operators, operands, calls,
                   validation, cleared>>

\* EvaluateEntry without self.operators.clear(): the marker stack of the
\* earlier call is kept.
EvaluateEntryKeepOperators ==
    /\ operators' = operators
    /\ operands' = <<>>
    /\ cleared' = Len(operands)
    /\ pos' = 0
    /\ result' = NoResult
    /\ pc' = "loop"

\* EvaluateEntry without self.operands.clear(): the operand stack of the
\* earlier call is kept.
EvaluateEntryKeepOperands ==
    /\ operators' = <<>>
    /\ operands' = operands
    /\ cleared' = Len(operators)
    /\ pos' = 0
    /\ result' = NoResult
    /\ pc' = "loop"

\* Entry of evaluate: both stacks are cleared.
EvaluateEntry ==
    /\ operators' = <<>>
    /\ operands' = <<>>
    /\ cleared' = Len(operators) + Len(operands)
    /\ pos' = 0
    /\ result' = NoResult
    /\ pc' = "loop"

\* execute_evaluate without the `?` of line 35: evaluate is started whatever
\* validate_tokens returned.
execute_evaluate_unchecked ==
    /\ pc = "validated"
    /\ EvaluateEntry
    /\ UNCHANGED <<api, tokens, variables, calls, validation>>

\* execute, line 36: self.evaluate(token, variables)
execute_evaluate ==
    /\ pc = "validated"
    /\ validation.ok
    /\ EvaluateEntry
    /\ UNCHANGED <<api, tokens, variables, calls, validation>>

\* evaluate called directly.
evaluate ==
    /\ Free
    /\ \E c \in Inputs :
        /\ tokens' = c[1]
        /\ variables' = c[2]
    /\ api' = "evaluate"
    /\ calls' = calls + 1
    /\ validation' = NotValidated
    /\ EvaluateEntry

\* The token the loop of evaluate is at.
Dispatching(type) ==
    /\ pc = "loop"
    /\ pos < Len(tokens)
    /\ tokens[pos + 1].type = type

Token == tokens[pos + 1]

\* The effect of one arm of the match: the stacks it leaves, and whether
\* the loop goes on, evaluate returns the error, or the call panics.
Arm(r) ==
    /\ operators' = r.operators
    /\ operands' = r.operands
    /\ pos' = pos + 1
    /\ pc' = CASE r.status = "Ok" -> "loop"
               [] r.status = "Err" -> "failed"
               [] OTHER -> "trapped"
    /\ result' = CASE r.status = "Ok" -> result
                   [] r.status = "Err" -> [kind |-> "Err", val |-> 0, err |-> r.err]
                   [] OTHER -> [kind |-> "Trap", val |-> 0, err |-> r.err]
    /\ UNCHANGED <<api, tokens, variables, calls, validation, cleared>>

DispatchNumber ==
    /\ Dispatching("Number")
    /\ Arm(St(operators, store_operand(operands, Token.num), "Ok", ""))

DispatchOperator ==
    /\ Dispatching("Operator")
    /\ Arm(operator_handle(operators, operands, Token.name))

DispatchFactorialSign ==
    /\ Dispatching("FactorialSign")
    /\ Arm(factorial_handle(operators, operands))

DispatchParenLeft ==
    /\ Dispatching("Bracket")
    /\ Token.name = "ParenLeft"
    /\ Arm(St(Append(operators, MOpenParen), operands, "Ok", ""))

DispatchParenRight ==
    /\ Dispatching("Bracket")
    /\ Token.name = "ParenRight"
    /\ Arm(closing_bracket_handle(operators, operands))

\* todo!()
DispatchVerticalLine ==
    /\ Dispatching("Bracket")
    /\ Token.name = "VerticalLine"
    /\ Arm(St(operators, operands, "Trap", "NotYetImplemented"))

DispatchId ==
    /\ Dispatching("Id")
    /\ Arm(id_handle(operators, operands, variables, Token.name))

DispatchComma ==
    /\ Dispatching("Comma")
    /\ Arm(St(operators, operands, "Ok", ""))

\* Line 98: Ok(self.operands.pop().unwrap_or_default())
EvaluateReturn ==
    /\ pc = "loop"
    /\ pos = Len(tokens)
    /\ result' = [kind |-> "Ok",
                  val |-> IF operands = <<>> THEN NumberDefault ELSE Last(operands),
                  err |-> ""]
    /\ operands' = IF operands = <<>> THEN <<>> ELSE Front(operands)
    /\ pc' = "returned"
    /\ UNCHANGED <<api, tokens, variables, pos, operators, calls, validation,
                   cleared>>

Next ==
    \/ validate_tokens
    \/ validate_tokens_any
    \/ execute_rejected
    \/ execute_evaluate
    \/ evaluate
    \/ DispatchNumber
    \/ DispatchOperator
    \/ DispatchFactorialSign
    \/ DispatchParenLeft
    \/ DispatchParenRight
    \/ DispatchVerticalLine
    \/ DispatchId
    \/ DispatchComma
    \/ EvaluateReturn

Spec == Init /\ [][Next]_vars

----------------------------------------------------------------------------
\* Vocabulary of the properties.

Finished == pc \in {"returned", "failed", "trapped"}

OkResult(n) == [kind |-> "Ok", val |-> n, err |-> ""]

ErrResult(e) == [kind |-> "Err", val |-> 0, err |-> e]

\* What a call returns when its value is the fallible r.
Returns(r) == IF r.ok THEN OkResult(r.val) ELSE ErrResult(r.err)

IsNumber(t) == t.type = "Number"

IsOperator(t) == t.type = "Operator"

IsBinaryExpr(t) ==
    /\ Len(t) = 3
    /\ IsNumber(t[1]) /\ IsOperator(t[2]) /\ IsNumber(t[3])

IsTripleExpr(t) ==
    /\ Len(t) = 5
    /\ IsNumber(t[1]) /\ IsOperator(t[2]) /\ IsNumber(t[3])
    /\ IsOperator(t[4]) /\ IsNumber(t[5])

IsParenExpr(t) ==
    /\ Len(t) = 7
    /\ IsNumber(t[2]) /\ IsNumber(t[4]) /\ IsNumber(t[7])
    /\ t = ParenExpr(t[2].num, t[4].num, t[7].num)

\* The literal arguments of a call whose identifier is the k-th token and
\* whose closing parenthesis is the last token.
CallArgs(t, k) ==
    LET body == SubSeq(t, k + 2, Len(t) - 1)
        m == (Len(body) + 1) \div 2
    IN  [i \in 1 .. m |-> body[2 * i - 1].num]

\* t is: k - 1 tokens, then f ( a1 , ... , am ) with f bound in env.
IsCallAt(t, k, env) ==
    /\ Len(t) >= k + 2
    /\ t[k].type = "Id"
    /\ Lookup(env, t[k].name) # {}
    /\ SubSeq(t, k, Len(t)) = CallExpr(t[k].name, CallArgs(t, k))

Bound(env, id) == CHOOSE v \in Lookup(env, id) : TRUE

HasMarker(ors, m) == \E i \in DOMAIN ors : ors[i] = m

----------------------------------------------------------------------------
\* C1: evaluate on [Number a, Operator OP, Number b] returns OP(a, b)
\* whenever OP(a, b) is defined, for each of the five operators.
C1_BinaryExprValue ==
    (Finished /\ IsBinaryExpr(tokens)) =>
        LET r == evaluate_expr(tokens[1].num, tokens[3].num, tokens[2].name)
        IN  r.ok => result = OkResult(r.val)

\* C2: evaluate on the parenthesis-free [a, low, b, high, c], low in
\* {Plus, Minus} and high of a strictly higher precedence class, returns
\* a low (b high c).
C2_Precedence ==
    (/\ Finished
     /\ IsTripleExpr(tokens)
     /\ operator_precedence(tokens[2].name) = 0
     /\ operator_precedence(tokens[4].name) > 0) =>
        LET inner == evaluate_expr(tokens[3].num, tokens[5].num, tokens[4].name)
        IN  inner.ok =>
                LET outer == evaluate_expr(tokens[1].num, inner.val, tokens[2].name)
                IN  outer.ok => result = OkResult(outer.val)

\* C3: evaluate on [a, op1, b, op2, c] with op1 and op2 of the same
\* precedence class returns (a op1 b) op2 c.
C3_LeftToRight ==
    (/\ Finished
     /\ IsTripleExpr(tokens)
     /\ operator_precedence(tokens[2].name) = operator_precedence(tokens[4].name)) =>
        LET first == evaluate_expr(tokens[1].num, tokens[3].num, tokens[2].name)
        IN  first.ok =>
                LET second == evaluate_expr(first.val, tokens[5].num, tokens[4].name)
                IN  second.ok => result = OkResult(second.val)

\* C4: evaluate on [ParenLeft, a, Plus, b, ParenRight, Multiply, c]
\* returns (a + b) * c.
C4_ParenGrouping ==
    (Finished /\ IsParenExpr(tokens)) =>
        result = OkResult((tokens[2].num + tokens[4].num) * tokens[7].num)

C6_CallOfCompoundArgument ==
    (/\ Finished
     /\ Len(tokens) = 6
     /\ tokens[1].type = "Id"
     /\ Lookup(variables, tokens[1].name) # {}
     /\ Bound(variables, tokens[1].name).argc = 1
     /\ IsNumber(tokens[3]) /\ IsNumber(tokens[5])
     /\ tokens = CallOfSum(tokens[1].name, tokens[3].num, tokens[5].num)) =>
        LET f == Bound(variables, tokens[1].name)
        IN  /\ result = Returns(calc(f, <<tokens[3].num + tokens[5].num>>))
            /\ ~HasMarker(operators, MVariable(f))

\* C7: evaluate on [Number a, Operator Divide, Number 0] returns an
\* ArithmeticDomainError and not a Number.
C7_DivisionByZero ==
    (/\ Finished
     /\ IsBinaryExpr(tokens)
     /\ tokens[2].name = "Divide"
     /\ tokens[3].num = 0) =>
        result = ErrResult("ArithmeticDomainError")

\* A call f ( a1 , ... , am ) closing the token sequence, after k - 1
\* other tokens, whose argument count differs from f's argc.
IsWrongArityCallAt(t, k, env) ==
    /\ IsCallAt(t, k, env)
    /\ Len(CallArgs(t, k)) # Bound(env, t[k].name).argc

\* C8: a call site that supplies a number of arguments different from the
\* Variable's argc makes execute and evaluate return an error value
\* (ArityMismatch or MalformedExpression): no trap, no Number, and the
\* operands pushed before the call's opening parenthesis are not consumed.
C8_WrongArity ==
    /\ (Finished /\ IsWrongArityCallAt(tokens, 1, variables)) =>
           /\ result.kind = "Err"
           /\ result.err \in {"ArityMismatch", "MalformedExpression"}
    /\ (/\ Finished
        /\ Len(tokens) >= 3
        /\ IsNumber(tokens[1])
        /\ tokens[2] = TOperator("Plus")
        /\ IsWrongArityCallAt(tokens, 3, variables)) =>
           /\ result.kind = "Err"
           /\ result.err \in {"ArityMismatch", "MalformedExpression"}
           /\ operands # <<>>
           /\ operands[1] = tokens[1].num

\* C9: when an Identifier token naming a key absent from the environment
\* is dispatched, the call returns an UndefinedVariable error value: it
\* neither traps nor returns a Number.
C9_UndefinedIdentifier ==
    (/\ pos > 0
     /\ tokens[pos].type = "Id"
     /\ Lookup(variables, tokens[pos].name) = {}) =>
        /\ pc = "failed"
        /\ result = ErrResult("UndefinedVariable")

\* C10: a step that needs more operands than the operand stack holds makes
\* evaluate return a MalformedExpression error value: no call ends in a
\* trap on an empty operand stack.
C10_NoUnderflowTrap ==
    ~(pc = "trapped" /\ result.err = "OperandUnderflow")

\* C11: dispatching a Bracket(VerticalLine) token never crashes the
\* evaluation: the group is evaluated as an absolute value or the call
\* returns an UnsupportedFeature error value.
C11_VerticalLineNoCrash ==
    (pos > 0 /\ pc \notin {"validated", "rejected"} /\ tokens[pos] = TVerticalLine) =>
        /\ pc # "trapped"
        /\ pc = "failed" => result = ErrResult("UnsupportedFeature")

\* C12: whenever evaluate returns Ok, at the moment the result is taken the
\* marker stack is empty and the operand stack holds exactly one value, or
\* no value for the empty token sequence only.
C12_TerminalState ==
    (pc = "loop" /\ pos = Len(tokens)) =>
        /\ operators = <<>>
        /\ Len(operands) <= 1
        /\ Len(operands) = 0 => tokens = <<>>

----------------------------------------------------------------------------
\* evaluate on a freshly constructed engine, as one function of its inputs.

\* The match of evaluate on one token.
dispatch(ors, ands, env, token) ==
    CASE token.type = "Number" -> St(ors, store_operand(ands, token.num), "Ok", "")
      [] token.type = "Operator" -> operator_handle(ors, ands, token.name)
      [] token.type = "FactorialSign" -> factorial_handle(ors, ands)
      [] token = TParenLeft -> St(Append(ors, MOpenParen), ands, "Ok", "")
      [] token = TParenRight -> closing_bracket_handle(ors, ands)
      [] token = TVerticalLine -> St(ors, ands, "Trap", "NotYetImplemented")
      [] token.type = "Id" -> id_handle(ors, ands, env, token.name)
      [] token.type = "Comma" -> St(ors, ands, "Ok", "")

\* The loop of evaluate from token i on, started with the stacks of st.
RECURSIVE evaluate_from(_, _, _, _)
evaluate_from(toks, env, i, st) ==
    IF st.status # "Ok" THEN st
    ELSE IF i > Len(toks) THEN st
    ELSE evaluate_from(toks, env, i + 1,
                       dispatch(st.operators, st.operands, env, toks[i]))

\* The outcome of evaluate(toks, env) on a new engine (Default: both
\* stacks empty).
FreshOutcome(toks, env) ==
    LET st == evaluate_from(toks, env, 1, St(<<>>, <<>>, "Ok", ""))
    IN  CASE st.status = "Ok" ->
                 OkResult(IF st.operands = <<>> THEN NumberDefault
                          ELSE Last(st.operands))
          [] st.status = "Err" -> ErrResult(st.err)
          [] OTHER -> [kind |-> "Trap", val |-> 0, err |-> st.err]

\* C13: whatever earlier calls left on the stacks of the engine, the
\* outcome of evaluate(tokens, env) is the outcome of evaluate(tokens, env)
\* on a freshly constructed engine.
C13_NoStateLeakage ==
    Finished => result = FreshOutcome(tokens, variables)

\* C13's case: a call that found entries of an earlier call on the stacks
\* has returned.
C13_Witness ==
    /\ calls = 2
    /\ cleared > 0
    /\ pc = "returned"
    /\ tokens = TripleExpr(8, "Minus", 3, "Minus", 2)
    /\ result = OkResult(2)

\* C14: execute runs validate_tokens first; when validation returns an
\* error, execute returns that error and evaluate is not started (the
\* stacks are not touched); when validation succeeds, evaluate is started
\* on the same tokens and environment and execute returns its outcome.
C14_ExecuteOrdering ==
    [][/\ (api' = "execute" /\ pc' = "loop" /\ pc # "loop") =>
              /\ pc = "validated"
              /\ validation.ran /\ validation.ok
              /\ UNCHANGED <<tokens, variables>>
       /\ (pc = "validated" /\ ~validation.ok) =>
              /\ pc' = "rejected"
              /\ result' = ErrResult(validation.err)
              /\ UNCHANGED <<tokens, variables, operators, operands, cleared>>
       /\ (pc = "validated" /\ validation.ok) =>
              /\ pc' = "loop"
              /\ pos' = 0
       /\ (api' = "execute" /\ Finished') =>
              /\ validation'.ok
              /\ result' = FreshOutcome(tokens', variables')]_vars

\* C14's case: execute has returned the error of a failed validation of
\* max(3, 7) without evaluating it.
C14_Witness ==
    /\ api = "execute"
    /\ pc = "rejected"
    /\ tokens = CallExpr("max", <<3, 7>>)
    /\ result = ErrResult("MalformedExpression")
    /\ pos = 0

\* C15: evaluate on [Number n, FactorialSign] returns n.factorial() when n
\* is in the factorial domain and the ArithmeticDomainError of factorial
\* when n is negative; in any state with a non-empty operand stack, the
\* dispatch of FactorialSign replaces only the top operand by its
\* factorial and leaves the depth of the operand stack and the marker
\* stack unchanged (or returns the error of factorial).
C15_PostfixFactorial ==
    [][/\ (Dispatching("FactorialSign") /\ operands # <<>>) =>
              LET r == factorial(Last(operands))
              IN  IF r.ok
                  THEN /\ pc' = "loop"
                       /\ operands' = Append(Front(operands), r.val)
                       /\ Len(operands') = Len(operands)
                       /\ operators' = operators
                  ELSE /\ pc' = "failed"
                       /\ result' = ErrResult("ArithmeticDomainError")
       /\ (/\ Finished'
           /\ Len(tokens') = 2
           /\ IsNumber(tokens'[1])
           /\ tokens'[2] = TFactorialSign) =>
              result' = Returns(factorial(tokens'[1].num))]_vars

\* C15's case: 5! has returned 120.
C15_Witness ==
    /\ pc = "returned"
    /\ tokens = <<TNumber(5), TFactorialSign>>
    /\ result = OkResult(120)

\* C16: evaluate on the empty token sequence returns Ok with the Number
\* default value, with any environment and whatever earlier calls left on
\* the stacks of the engine.
C16_EmptyInput ==
    (tokens = <<>> /\ pc \in {"loop", "returned", "failed", "trapped"}) =>
        /\ pc \in {"loop", "returned"}
        /\ pc = "returned" => result = OkResult(NumberDefault)

\* C16's case: the empty sequence was evaluated on an engine whose stacks
\* held entries of an earlier call, and the default value was returned.
C16_Witness ==
    /\ calls = 2
    /\ cleared > 0
    /\ tokens = <<>>
    /\ pc = "returned"
    /\ result = OkResult(NumberDefault)

\* C17: when operator_handle reduces the pending operator `last`, the
\* operand pushed earlier is the left operand and the operand pushed later
\* the right one: after the dispatch of [a, op1, b, op2], op2 not of a
\* higher precedence than op1, the operand stack is [a op1 b] and the
\* marker stack is [op2].
C17_ReductionOperandOrder ==
    (/\ IsTripleExpr(tokens)
     /\ pos = 4
     /\ operator_precedence(tokens[4].name) <= operator_precedence(tokens[2].name)) =>
        LET r == evaluate_expr(tokens[1].num, tokens[3].num, tokens[2].name)
        IN  IF r.ok
            THEN /\ pc = "loop"
                 /\ operands = <<r.val>>
                 /\ operators = <<MOperator(tokens[4].name)>>
            ELSE /\ pc = "failed"
                 /\ result = ErrResult(r.err)

\* ParenLeft tokens among the first i tokens of t not yet closed by a
\* ParenRight token.
RECURSIVE Unclosed(_, _)
Unclosed(t, i) ==
    IF i = 0 THEN 0
    ELSE Unclosed(t, i - 1)
         + (IF t[i] = TParenLeft THEN 1 ELSE IF t[i] = TParenRight THEN -1 ELSE 0)

BalancedParens(t) ==
    /\ \A i \in 0 .. Len(t) : Unclosed(t, i) >= 0
    /\ Unclosed(t, Len(t)) = 0

OpenParenMarkers(ors) == Cardinality({i \in DOMAIN ors : ors[i] = MOpenParen})

\* C18: for a token sequence with balanced parentheses, every ParenRight
\* step removes the open-paren marker of its group (never a
\* pending-Variable marker in its place), so after every prefix the marker
\* stack holds as many open-paren markers as ParenLeft tokens are not yet
\* closed, also for a group holding a bare Identifier.
C18_BracketBalance ==
    (pc = "loop" /\ BalancedParens(tokens)) =>
        OpenParenMarkers(operators) = Unclosed(tokens, pos)

\* C19: for c bound with argc = 0, an Identifier token naming c that no
\* parenthesized group follows contributes c.calc([]) as its value:
\* evaluate on [Id c] and on [ParenLeft, Id c, ParenRight] returns
\* c.calc([]), not the Number default.
C19_ConstantOperand ==
    \A v \in variables :
        (/\ v.argc = 0
         /\ Finished
         /\ tokens \in {<<TId(v.name)>>, <<TParenLeft, TId(v.name), TParenRight>>}) =>
            result = Returns(calc(v, <<>>))

\* C20: in every state reached during evaluate, adjacent pending Operator
\* entries of the marker stack have strictly increasing precedence from
\* bottom to top, so a run of them holds at most three operators and never
\* two of the same precedence class.
C20_MarkerPrecedence ==
    \A i \in 1 .. Len(operators) - 1 :
        (operators[i].kind = "Operator" /\ operators[i + 1].kind = "Operator") =>
            operator_precedence(operators[i].op)
                < operator_precedence(operators[i + 1].op)

\* C20's case: 2 + 3 * 4 has been dispatched; Multiply was pushed on the
\* pending Plus of lower precedence.
C20_Witness ==
    /\ pc = "loop"
    /\ tokens = TripleExpr(2, "Plus", 3, "Multiply", 4)
    /\ pos = 5
    /\ operators = <<MOperator("Plus"), MOperator("Multiply")>>

====
